---- MODULE Spec2Model ----
(***************************************************************************)
(* Model of scripts/generate_inventory.py: main() validates the range,     *)
(* generate_inventory() resolves vpn-<n> hostnames one at a time, collects *)
(* the resolved ones in a dict and then writes actual_servers.yml.         *)
(* A line of the output file is a record [indent, text]: the number of     *)
(* leading spaces and the rest of the line without the newline.            *)
(***************************************************************************)
EXTENDS Integers, Sequences, FiniteSets, TLC

\* ---------------------------------------------------------------- bounds
\* longest range (end - start + 1) explored
MaxLen == 3
\* how far below start the end argument may lie (invalid ranges)
MaxBelow == 2

\* first numbers explored: the ranges cover 8, 61 and ordinary numbers
Starts == {7, 60}
\* addresses the resolver can answer with
IPs == {"203.0.113.8", "198.51.100.7"}
\* command lines: default options and one with every option overridden
ArgSets ==
    { [prefix |-> "vpn-", suffix |-> ".tgvpnbot.com", user |-> "vpnuser", port |-> 11041],
      [prefix |-> "node", suffix |-> ".example.org", user |-> "root", port |-> 22],
      [prefix |-> "vpn-", suffix |-> "..tgvpnbot.com", user |-> "vpnuser", port |-> 11041] }

VARIABLES pc, start_num, end_num, args, num, inventory, successful_pings,
          failed_pings, lookups, i, file, file_exists, touched, io_failed,
          exit_status

vars == <<pc, start_num, end_num, args, num, inventory, successful_pings,
          failed_pings, lookups, i, file, file_exists, touched, io_failed,
          exit_status>>

\* ---------------------------------------------------------------- helpers
Line(indent, text) == [indent |-> indent, text |-> text]

Blank == Line(0, "")

\* content of an output file left by an earlier run
StaleFile == <<Line(0, "# previous run")>>

\* exit status while the process is still running
Running == -1

\* domain_template.format(num)
FormatDomain(a, n) == a.prefix \o ToString(n) \o a.suffix

\* the delimiters of the labels of a name: before it, its dots, after it
LabelBounds(d) == {0, Len(d) + 1} \cup {j \in 1..Len(d) : SubSeq(d, j, j) = "."}

\* the IDNA encoding gethostbyname applies to its argument refuses a name
\* with an empty label (other than a trailing one) or a label of 64 or more
IdnaRejects(d) ==
    \E p, q \in LabelBounds(d) :
        /\ p < q
        /\ \A m \in LabelBounds(d) : ~(p < m /\ m < q)
        /\ \/ q - p - 1 >= 64
           \/ q - p - 1 = 0 /\ q # Len(d) + 1

\* what socket.gethostbyname can do for one name: an address, gaierror
\* for a name that does not resolve, UnicodeError for a name it cannot encode
Outcomes(d) ==
    IF IdnaRejects(d)
    THEN { [kind |-> "UnicodeError", ip |-> ""] }
    ELSE [kind : {"ok"}, ip : IPs] \cup { [kind |-> "gaierror", ip |-> ""] }

\* ping_domain: the address on success, None on socket.gaierror; any other
\* exception of gethostbyname is not caught and leaves the function
ping_domain(o) ==
    CASE o.kind = "ok" -> [raised |-> FALSE, found |-> TRUE, ip |-> o.ip]
      [] o.kind = "gaierror" -> [raised |-> FALSE, found |-> FALSE, ip |-> ""]
      [] OTHER -> [raised |-> TRUE, found |-> FALSE, ip |-> ""]

\* "if ip:" - None and the empty string are false
Truthy(r) == r.found /\ r.ip # ""

ServerNameAlwaysNumbered(n) == "server-" \o ToString(n)

\* the display name: 8 and 61 are routers
ServerName(n) ==
    IF n = 8 THEN "router-1"
    ELSE IF n = 61 THEN "router-2"
    ELSE "server-" \o ToString(n)

HostKeyConstant(n) == "server-"

\* the key of the hosts dict
HostKey(n) == "server-" \o ToString(n)

ServerData(a, n, ip) ==
    [ansible_host |-> ip, ansible_user |-> a.user, ansible_port |-> a.port,
     server_domain |-> FormatDomain(a, n), server_name |-> ServerName(n)]

DictSetFront(d, k, v) == <<[key |-> k, data |-> v]>> \o d

\* d[k] = v on an insertion-ordered dict: an existing key keeps its place
DictSet(d, k, v) ==
    IF \E j \in 1..Len(d) : d[j].key = k
    THEN [j \in 1..Len(d) |-> IF d[j].key = k THEN [key |-> k, data |-> v] ELSE d[j]]
    ELSE Append(d, [key |-> k, data |-> v])

RangeContinuesShort(n, e) == n < e

\* "for num in range(start_num, end_num + 1)" has a next number
RangeContinues(n, e) == n < e + 1

InvalidRangeOffByOne(s, e) == s > e + 1

\* main()'s range check
InvalidRange(s, e) == s > e

Header ==
    << Line(0, "---"), Line(0, "all:"), Line(4, "children:"),
       Line(8, "servers:"), Line(12, "hosts:") >>

ServerBlock(e) ==
    << Line(16, e.key \o ":"),
       Line(20, "ansible_host: " \o e.data.ansible_host),
       Line(20, "ansible_user: " \o e.data.ansible_user),
       Line(20, "ansible_port: " \o ToString(e.data.ansible_port)),
       Line(20, "server_domain: \"" \o e.data.server_domain \o "\""),
       Line(20, "server_name: \"" \o e.data.server_name \o "\"") >>

SeparatorAlways(k, n) == <<Blank>>

\* the blank line written after block k (0-based) of n, except the last
Separator(k, n) == IF k < n - 1 THEN <<Blank>> ELSE <<>>

Trailer ==
    << Blank, Line(4, "hosts:"), Line(8, "localhost:"),
       Line(12, "ansible_connection: local") >>

\* ---------------------------------------------------------------- Init
Init ==
    /\ pc = "main"
    /\ start_num \in Starts
    /\ end_num \in (start_num - MaxBelow)..(start_num + MaxLen - 1)
    /\ args \in ArgSets
    /\ num = start_num
    /\ inventory = <<>>
    /\ successful_pings = 0
    /\ failed_pings = 0
    /\ lookups = <<>>
    /\ i = 0
    /\ file_exists \in BOOLEAN
    /\ file = IF file_exists THEN StaleFile ELSE <<>>
    /\ touched = FALSE
    /\ io_failed = FALSE
    /\ exit_status = Running

\* ---------------------------------------------------------------- main
MainRejects ==
    /\ pc = "main"
    /\ InvalidRange(start_num, end_num)
    /\ pc' = "exited"
    /\ exit_status' = 1
    /\ UNCHANGED <<start_num, end_num, args, num, inventory, successful_pings,
                   failed_pings, lookups, i, file, file_exists, touched, io_failed>>

MainCalls ==
    /\ pc = "main"
    /\ ~InvalidRange(start_num, end_num)
    /\ pc' = "loop"
    /\ num' = start_num
    /\ inventory' = <<>>
    /\ successful_pings' = 0
    /\ failed_pings' = 0
    /\ UNCHANGED <<start_num, end_num, args, lookups, i, file, file_exists,
                   touched, io_failed, exit_status>>

\* ---------------------------------------------------------------- loop
Logged(o) == Append(lookups, [num |-> num, domain |-> FormatDomain(args, num), outcome |-> o])

LookupSuccess ==
    /\ pc = "loop"
    /\ RangeContinues(num, end_num)
    /\ \E o \in Outcomes(FormatDomain(args, num)) :
         LET r == ping_domain(o) IN
         /\ ~r.raised
         /\ Truthy(r)
         /\ successful_pings' = successful_pings + 1
         /\ inventory' = DictSet(inventory, HostKey(num), ServerData(args, num, r.ip))
         /\ lookups' = Logged(o)
    /\ num' = num + 1
    /\ UNCHANGED <<pc, start_num, end_num, args, failed_pings, i, file,
                   file_exists, touched, io_failed, exit_status>>

LookupFailureUncounted ==
    /\ pc = "loop"
    /\ RangeContinues(num, end_num)
    /\ \E o \in Outcomes(FormatDomain(args, num)) :
         LET r == ping_domain(o) IN
         /\ ~r.raised
         /\ ~Truthy(r)
         /\ lookups' = Logged(o)
    /\ num' = num + 1
    /\ UNCHANGED <<pc, start_num, end_num, args, inventory, successful_pings,
                   failed_pings, i, file, file_exists, touched, io_failed, exit_status>>

LookupFailure ==
    /\ pc = "loop"
    /\ RangeContinues(num, end_num)
    /\ \E o \in Outcomes(FormatDomain(args, num)) :
         LET r == ping_domain(o) IN
         /\ ~r.raised
         /\ ~Truthy(r)
         /\ lookups' = Logged(o)
    /\ failed_pings' = failed_pings + 1
    /\ num' = num + 1
    /\ UNCHANGED <<pc, start_num, end_num, args, inventory, successful_pings,
                   i, file, file_exists, touched, io_failed, exit_status>>

\* an exception ping_domain does not catch propagates out of main():
\* traceback, exit status 1
LookupError ==
    /\ pc = "loop"
    /\ RangeContinues(num, end_num)
    /\ \E o \in Outcomes(FormatDomain(args, num)) :
         /\ ping_domain(o).raised
         /\ lookups' = Logged(o)
    /\ pc' = "exited"
    /\ exit_status' = 1
    /\ UNCHANGED <<start_num, end_num, args, num, inventory, successful_pings,
                   failed_pings, i, file, file_exists, touched, io_failed>>

LoopEnd ==
    /\ pc = "loop"
    /\ ~RangeContinues(num, end_num)
    /\ pc' = "save"
    /\ UNCHANGED <<start_num, end_num, args, num, inventory, successful_pings,
                   failed_pings, lookups, i, file, file_exists, touched,
                   io_failed, exit_status>>

\* ---------------------------------------------------------------- save
\* open(output_file, "w"): the file is created or truncated
OpenFile ==
    /\ pc = "save"
    /\ pc' = "header"
    /\ file' = <<>>
    /\ file_exists' = TRUE
    /\ touched' = TRUE
    /\ UNCHANGED <<start_num, end_num, args, num, inventory, successful_pings,
                   failed_pings, lookups, i, io_failed, exit_status>>

HandleErrorSwallowed ==
    /\ pc' = "exited"
    /\ exit_status' = 0

\* "except Exception as e: ... sys.exit(1)" around the whole with-block
HandleError ==
    /\ pc' = "exited"
    /\ exit_status' = 1

\* open() raises: the file is left as it was
OpenFails ==
    /\ pc = "save"
    /\ io_failed' = TRUE
    /\ HandleError
    /\ UNCHANGED <<start_num, end_num, args, num, inventory, successful_pings,
                   failed_pings, lookups, i, file, file_exists, touched>>

WriteHeader ==
    /\ pc = "header"
    /\ file' = file \o Header
    /\ i' = 0
    /\ pc' = "servers"
    /\ UNCHANGED <<start_num, end_num, args, num, inventory, successful_pings,
                   failed_pings, lookups, file_exists, touched, io_failed, exit_status>>

WriteServer ==
    /\ pc = "servers"
    /\ i < Len(inventory)
    /\ file' = file \o ServerBlock(inventory[i + 1]) \o Separator(i, Len(inventory))
    /\ i' = i + 1
    /\ UNCHANGED <<pc, start_num, end_num, args, num, inventory, successful_pings,
                   failed_pings, lookups, file_exists, touched, io_failed, exit_status>>

WriteTrailer ==
    /\ pc = "servers"
    /\ ~(i < Len(inventory))
    /\ file' = file \o Trailer
    /\ pc' = "summary"
    /\ UNCHANGED <<start_num, end_num, args, num, inventory, successful_pings,
                   failed_pings, lookups, i, file_exists, touched, io_failed, exit_status>>

\* the lines the step at hand is about to write
Pending ==
    CASE pc = "header" -> Header
      [] pc = "servers" /\ i < Len(inventory) ->
            ServerBlock(inventory[i + 1]) \o Separator(i, Len(inventory))
      [] OTHER -> Trailer

\* a write, or the flush when the file is closed, raises after k lines of
\* the step at hand got out
WriteFails ==
    /\ pc \in {"header", "servers"}
    /\ \E k \in 0..Len(Pending) : file' = file \o SubSeq(Pending, 1, k)
    /\ io_failed' = TRUE
    /\ HandleError
    /\ UNCHANGED <<start_num, end_num, args, num, inventory, successful_pings,
                   failed_pings, lookups, i, file_exists, touched>>

\* the statistics are printed, generate_inventory and main return
Summary ==
    /\ pc = "summary"
    /\ pc' = "exited"
    /\ exit_status' = 0
    /\ UNCHANGED <<start_num, end_num, args, num, inventory, successful_pings,
                   failed_pings, lookups, i, file, file_exists, touched, io_failed>>

Next ==
    \/ MainRejects
    \/ MainCalls
    \/ LookupSuccess
    \/ LookupFailure
    \/ LookupError
    \/ LoopEnd
    \/ OpenFile
    \/ OpenFails
    \/ WriteHeader
    \/ WriteServer
    \/ WriteTrailer
    \/ WriteFails
    \/ Summary

Spec == Init /\ [][Next]_vars

\* ---------------------------------------------------------------- properties
\* the with-block has written every line and closed the file
Written == pc = "summary" \/ (pc = "exited" /\ exit_status = 0)

\* the lookup loop has run through the whole range
LoopEnded == pc \in {"save", "header", "servers", "summary"} \/ io_failed \/ Written

\* the numbers whose lookup returned an address
ResolvedNums ==
    {lookups[j].num : j \in {m \in 1..Len(lookups) : lookups[m].outcome.kind = "ok"}}

\* the address a resolved number got
AddressOf(n) ==
    (CHOOSE j \in 1..Len(lookups) : lookups[j].num = n /\ lookups[j].outcome.kind = "ok")
   
\* the positions of the host-key lines in the file
KeyLines == {j \in 1..Len(file) : file[j].indent = 16}

KeyText(n) == "server-" \o ToString(n) \o ":"

\* the block of number n as the documented file shape gives it
ShapeBlock(n) ==
    LET l == lookups[AddressOf(n)] IN
    << Line(16, KeyText(n)),
       Line(20, "ansible_host: " \o l.outcome.ip),
       Line(20, "ansible_user: " \o args.user),
       Line(20, "ansible_port: " \o ToString(args.port)),
       Line(20, "server_domain: \"" \o l.domain \o "\""),
       Line(20, "server_name: \"" \o
                 (IF n = 8 THEN "router-1" ELSE IF n = 61 THEN "router-2"
                  ELSE "server-" \o ToString(n)) \o "\"") >>

\* C1: once the file is completely written, its server blocks are exactly the
\* resolved numbers of [start, end]: one complete five-field block keyed
\* server-<n> for each resolved n, none for an unresolved n, no other block.
C1_BlocksAreResolved ==
    Written =>
        /\ \A n \in start_num..end_num :
              Cardinality({j \in KeyLines : file[j].text = KeyText(n)})
                  = IF n \in ResolvedNums THEN 1 ELSE 0
        /\ Cardinality(KeyLines) = Cardinality(ResolvedNums)
        /\ \A j \in KeyLines :
              /\ j + 5 <= Len(file)
              /\ \E n \in ResolvedNums : SubSeq(file, j, j + 5) = ShapeBlock(n)
        /\ Cardinality({j \in 1..Len(file) : file[j].indent = 20})
              = 5 * Cardinality(KeyLines)

C1_Witness ==
    /\ Written
    /\ Cardinality(ResolvedNums) = 2
    /\ Len(lookups) = 3

\* C2: every lookup that fails, whatever the cause, is counted as a failure
\* and the loop goes on: a run on a valid range never exits before the loop
\* has gone through the range.
C2_LookupFailureNeverAborts ==
    /\ failed_pings
          = Cardinality({j \in 1..Len(lookups) : lookups[j].outcome.kind # "ok"})
    /\ (pc = "exited" /\ start_num <= end_num) => LoopEnded

\* C3: with start > end the program resolves nothing, leaves the output file
\* alone and exits with status 1.
C3_InvalidRange ==
    start_num > end_num =>
        /\ pc \in {"main", "exited"}
        /\ lookups = <<>>
        /\ ~touched
        /\ file = (IF file_exists THEN StaleFile ELSE <<>>)
        /\ pc = "exited" => exit_status = 1

C3_Witness == pc = "exited" /\ start_num = end_num + 1 /\ file_exists

\* the position of the top-level "    hosts:" line
TopHosts == {j \in 1..Len(file) : file[j] = Line(4, "hosts:")}

\* consecutive server blocks are separated by exactly one blank line
OneBlankBetweenBlocks ==
    \A j \in KeyLines :
        (\E k \in KeyLines : k > j) =>
            /\ j + 7 \in KeyLines
            /\ file[j + 6] = Blank
            /\ \A m \in (j + 1)..(j + 5) : file[m] # Blank

\* C4 as stated: blocks are separated by one blank line and the line right
\* before the top-level hosts line is the last line of the last server block
\* or, with no servers, the hosts line under servers.
C4_NoBlankBeforeTopHosts ==
    Written =>
        /\ OneBlankBetweenBlocks
        /\ \A h \in TopHosts :
              /\ h > 1
              /\ file[h - 1] # Blank
              /\ IF KeyLines = {} THEN file[h - 1] = Line(12, "hosts:")
                 ELSE file[h - 1].indent = 20 /\ h - 6 \in KeyLines

\* C4 amended: blocks are separated by exactly one blank line, and exactly
\* one blank line stands between the last server block (or, with no servers,
\* the hosts line under servers) and the top-level hosts line.
C4_OneBlankBeforeTopHosts ==
    Written =>
        /\ OneBlankBetweenBlocks
        /\ Cardinality(TopHosts) = 1
        /\ \A h \in TopHosts :
              /\ h > 2
              /\ file[h - 1] = Blank
              /\ file[h - 2] # Blank
              /\ IF KeyLines = {} THEN file[h - 2] = Line(12, "hosts:")
                 ELSE file[h - 2].indent = 20 /\ h - 7 \in KeyLines
        /\ Cardinality({j \in 1..Len(file) : file[j] = Blank})
              = IF KeyLines = {} THEN 1 ELSE Cardinality(KeyLines)

C4_Witness == Written /\ Cardinality(KeyLines) = 2

\* C5: when the lookup loop has ended, the records collected number the
\* successes, and successes plus failures number the range.
C5_CountsAddUp ==
    LoopEnded =>
        /\ Len(inventory) = successful_pings
        /\ successful_pings + failed_pings = end_num - start_num + 1

C5_Witness == pc = "save" /\ successful_pings = 1 /\ failed_pings = 2

\* the number a host-key line names
NumOfKeyLine(j) == CHOOSE n \in start_num..end_num : file[j].text = KeyText(n)

\* C6: the server blocks of the file, complete or not, are in strictly
\* ascending order of their numbers, the order of the lookups.
C6_BlocksAscending ==
    /\ \A j \in KeyLines : \E n \in ResolvedNums : file[j].text = KeyText(n)
    /\ \A j, k \in KeyLines : j < k => NumOfKeyLine(j) < NumOfKeyLine(k)

C6_Witness == Written /\ Cardinality(KeyLines) = 3

\* the file of a run in which nothing resolved
EmptyInventoryFile ==
    << Line(0, "---"), Line(0, "all:"), Line(4, "children:"), Line(8, "servers:"),
       Line(12, "hosts:"), Blank, Line(4, "hosts:"), Line(8, "localhost:"),
       Line(12, "ansible_connection: local") >>

\* C7: a run on a valid range in which no number resolved, and whose output
\* file could be opened and written, ends with status 0 and the file holding
\* the empty hosts key under servers and the localhost entry.
C7_NothingResolvedStillWritten ==
    (pc = "exited" /\ start_num <= end_num /\ ResolvedNums = {} /\ ~io_failed) =>
        /\ exit_status = 0
        /\ file_exists
        /\ file = EmptyInventoryFile

\* C8: a failure to open or write the output file, at whatever point, ends
\* the process with status 1.
C8_WriteFailureExitsOne == io_failed => pc = "exited" /\ exit_status = 1

C8_Witness == io_failed /\ Cardinality(KeyLines) >= 1 /\ file[Len(file)] = Blank

\* C9: every resolved number n has a record keyed server-<n> whose
\* server_name is router-1 for 8, router-2 for 61 and server-<n> otherwise.
C9_Names ==
    /\ \A j \in 1..Len(inventory) :
          \E n \in ResolvedNums :
              /\ inventory[j].key = "server-" \o ToString(n)
              /\ inventory[j].data.server_name =
                    (IF n = 8 THEN "router-1" ELSE IF n = 61 THEN "router-2"
                     ELSE "server-" \o ToString(n))
    /\ \A n \in ResolvedNums :
          \E j \in 1..Len(inventory) : inventory[j].key = "server-" \o ToString(n)

C9_Witness == pc = "save" /\ ResolvedNums = {60, 61, 62}

\* C10: lookups go through the range one number at a time in ascending
\* order; while the loop runs the output file is as the run found it, and it
\* is opened only when every number of the range has been looked up and the
\* lookup has returned.
C10_FileOnlyAfterLoop ==
    /\ \A j \in 1..Len(lookups) : lookups[j].num = start_num + j - 1
    /\ pc \in {"main", "loop"} =>
          ~touched /\ file = (IF file_exists THEN StaleFile ELSE <<>>)
    /\ touched =>
          /\ Len(lookups) = end_num - start_num + 1
          /\ \A j \in 1..Len(lookups) : lookups[j].outcome.kind \in {"ok", "gaierror"}

C10_Witness == touched /\ Len(lookups) = 3 /\ pc = "header"

====
